---- MODULE Spec2Model ----
(***************************************************************************)
(* route-sprout: a declarative tree of URL route segments compiled into a  *)
(* navigable object graph (src/src/api.ts, lines 115-311).                 *)
(*                                                                         *)
(* A JavaScript string is a sequence of one-character strings; a numeric   *)
(* Segment n is the one-token sequence <<"#n">>, so that strings and       *)
(* numbers stay comparable.  A thrown exception is the record              *)
(* [throws |-> message kind].                                              *)
(***************************************************************************)
EXTENDS Integers, Sequences, FiniteSets, TLC

\* ---------------------------------------------------------------- bounds
\* number of $when / $join invocations in one chain of calls
MaxMods == 1
MaxName == 3

\* ------------------------------------------------------------ characters
LowerSeq == <<"a","b","c","d","e","f","g","h","i","j","k","l","m",
              "n","o","p","q","r","s","t","u","v","w","x","y","z">>
UpperSeq == <<"A","B","C","D","E","F","G","H","I","J","K","L","M",
              "N","O","P","Q","R","S","T","U","V","W","X","Y","Z">>
DigitSeq == <<"0","1","2","3","4","5","6","7","8","9">>

Range(f) == {f[i] : i \in DOMAIN f}
IsLetter(c) == c \in Range(LowerSeq) \cup Range(UpperSeq)
IsDigit(c) == c \in Range(DigitSeq)
IsAlnum(c) == IsLetter(c) \/ IsDigit(c)

\* String.prototype.toUpperCase on one character
toUpperCase(c) ==
  IF c \in Range(LowerSeq)
    THEN UpperSeq[CHOOSE i \in DOMAIN LowerSeq : LowerSeq[i] = c]
    ELSE c

\* numeric Segments: the token and its decimal rendering (String(n))
NumTokens == {"#0", "#7", "#42"}
IsNum(seg) == Len(seg) = 1 /\ seg[1] \in NumTokens
NumString(tok) ==
  CASE tok = "#0" -> <<"0">>
    [] tok = "#7" -> <<"7">>
    [] tok = "#42" -> <<"4","2">>

\* String(segment)
Stringify(seg) == IF IsNum(seg) THEN NumString(seg[1]) ELSE seg

\* no segment is falsy
Truthy_always(seg) == TRUE

\* Boolean(segment): '' and 0 are falsy
Truthy(seg) == seg # <<>> /\ seg # <<"#0">>

\* ------------------------------------------------- toCamelCase (130-137)
RECURSIVE StripLead(_, _)
\* s.replace(/^c+/, '')
StripLead(s, c) == IF s # <<>> /\ Head(s) = c THEN StripLead(Tail(s), c) ELSE s

RECURSIVE StripTrail(_, _)
\* s.replace(/c+$/, '')
StripTrail(s, c) ==
  IF s # <<>> /\ s[Len(s)] = c THEN StripTrail(SubSeq(s, 1, Len(s) - 1), c) ELSE s

RECURSIVE CapAfter(_, _)
\* s.replace(/c([a-zA-Z0-9])/g, (_, x) => x.toUpperCase())
CapAfter(s, c) ==
  IF s = <<>> THEN <<>>
  ELSE IF Head(s) = c /\ Len(s) >= 2 /\ IsAlnum(s[2])
    THEN <<toUpperCase(s[2])>> \o CapAfter(SubSeq(s, 3, Len(s)), c)
    ELSE <<Head(s)>> \o CapAfter(Tail(s), c)

toCamelCase(s) ==
  CapAfter(CapAfter(StripTrail(StripLead(StripTrail(StripLead(s, "-"), "-"), "_"), "_"),
                    "-"), "_")

\* the first character may be a digit as well
IDENT_anyFirst(s) ==
  /\ s # <<>>
  /\ \A i \in 1..Len(s) : IsAlnum(s[i]) \/ s[i] \in {"_", "-"}

\* IDENT = /^[A-Za-z_-][A-Za-z0-9_-]*$/  (139)
IDENT(s) ==
  /\ s # <<>>
  /\ IsLetter(s[1]) \/ s[1] \in {"_", "-"}
  /\ \A i \in 2..Len(s) : IsAlnum(s[i]) \/ s[i] \in {"_", "-"}

\* assertValidName (141-156): TRUE when the name is returned, FALSE when it throws
assertValidName(kind, name) ==
  IF kind = "path" /\ name = <<>> THEN TRUE
  ELSE IF name = <<>> THEN FALSE
  ELSE IDENT(name)

\* --------------------------------------------------- exceptions
Throw(what) == [throws |-> what]
IsThrow(x) == "throws" \in DOMAIN x

\* --------------------------------------------------- DSL helpers (159-217)
keep == [kind |-> "keep"]

path(name, list) ==
  IF ~assertValidName("path", name) THEN Throw("name")
  ELSE [kind |-> "path", name |-> name, uuid |-> toCamelCase(name), list |-> list]

slot(name, list) ==
  IF ~assertValidName("slot", name) THEN Throw("name")
  ELSE [kind |-> "slot", name |-> name, uuid |-> <<"$">> \o toCamelCase(name), list |-> list]

\* the predicate `when` is the set of arguments on which it returns true
wrap(name, when, list) ==
  IF ~assertValidName("wrap", name) THEN Throw("name")
  ELSE [kind |-> "wrap", name |-> name, uuid |-> <<"$">> \o toCamelCase(name),
        when |-> when, list |-> list]

\* mode maps a selection key to [t |-> "arr", v |-> segments] or to a lone
\* string [t |-> "str", v |-> characters]
pick(name, mode, list) ==
  IF ~assertValidName("pick", name) THEN Throw("name")
  ELSE [kind |-> "pick", name |-> name, uuid |-> <<"$">> \o toCamelCase(name),
        mode |-> mode, list |-> list]

\* base(segs, list): declared in dist/api.d.cts, no implementation in src/
base(segs, list) == [kind |-> "base", segs |-> segs, list |-> list]

\* --------------------------------------------------- url (223-227)
RECURSIVE Filter(_)
\* path.filter(Boolean)
Filter(p) ==
  IF p = <<>> THEN <<>>
  ELSE IF Truthy(Head(p)) THEN <<Head(p)>> \o Filter(Tail(p)) ELSE Filter(Tail(p))

RECURSIVE JoinSlash(_)
\* segments.join('/')
JoinSlash(p) ==
  IF p = <<>> THEN <<>>
  ELSE IF Len(p) = 1 THEN Stringify(p[1])
  ELSE Stringify(p[1]) \o <<"/">> \o JoinSlash(Tail(p))

RECURSIVE Collapse(_)
\* s.replace(/\/{2,}/g, '/')
Collapse(s) ==
  IF Len(s) < 2 THEN s
  ELSE IF s[1] = "/" /\ s[2] = "/" THEN Collapse(Tail(s))
  ELSE <<s[1]>> \o Collapse(Tail(s))

\* search: [t |-> "none"] (no argument), [t |-> "str", v |-> characters],
\* [t |-> "usp", v |-> pairs] (URLSearchParams), [t |-> "obj", v |-> pairs]
RECURSIVE JoinAmp(_)
\* URLSearchParams.prototype.toString: key=value pairs joined by '&'
\* (keys and values here need no percent-encoding)
JoinAmp(pairs) ==
  IF pairs = <<>> THEN <<>>
  ELSE pairs[1][1] \o <<"=">> \o pairs[1][2]
       \o (IF Len(pairs) = 1 THEN <<>> ELSE <<"&">> \o JoinAmp(Tail(pairs)))

ObjectObject == <<"[","o","b","j","e","c","t"," ","O","b","j","e","c","t","]">>

\* every search stringifies through its own toString
SearchString_serialized(search) ==
  CASE search.t = "str" -> search.v
    [] search.t = "usp" -> JoinAmp(search.v)
    [] search.t = "obj" -> JoinAmp(search.v)
    [] OTHER -> <<>>

\* `${search}`: a string is itself, a URLSearchParams serializes its pairs,
\* a plain object is Object.prototype.toString
SearchString(search) ==
  CASE search.t = "str" -> search.v
    [] search.t = "usp" -> JoinAmp(search.v)
    [] search.t = "obj" -> ObjectObject
    [] OTHER -> <<>>

\* the suffix is added for every search given
SearchTruthy_always(search) == search.t # "none"

\* the condition `search ? ... : ''`: undefined and '' are falsy, every
\* object is truthy
SearchTruthy(search) ==
  \/ search.t = "str" /\ search.v # <<>>
  \/ search.t \in {"usp", "obj"}

url(p, search) ==
  <<"/">> \o Collapse(JoinSlash(Filter(p)))
          \o (IF SearchTruthy(search) THEN <<"?">> \o SearchString(search) ELSE <<>>)

\* --------------------------------------------------- compiled routes
\* A compiled route is [fn, path, props]: fn says whether the target is a
\* function, path is the prefix captured by that function, props maps each
\* own enumerable key to a compiled route (path child) or to a closure
\* [cl |-> "bind" | "wrap" | "pick" | "when" | "join", ...captured variables].
IsRoute(x) == "fn" \in DOMAIN x
IsClosure(x) == "cl" \in DOMAIN x

\* keys every function object answers to `in` without owning them as
\* enumerable properties (own length/name, Function.prototype, Object.prototype)
FunctionKeys ==
  { <<"l","e","n","g","t","h">>, <<"n","a","m","e">>, <<"c","a","l","l">>,
    <<"a","p","p","l","y">>, <<"b","i","n","d">>, <<"c","a","l","l","e","r">>,
    <<"a","r","g","u","m","e","n","t","s">>,
    <<"c","o","n","s","t","r","u","c","t","o","r">>,
    <<"t","o","S","t","r","i","n","g">>, <<"v","a","l","u","e","O","f">> }

\* makeTarget (308-310)
makeTarget(callable, currentPath) ==
  [fn |-> callable, path |-> IF callable THEN currentPath ELSE <<>>, props |-> <<>>]

\* the duplicate check never fires
In_never(key, target) == FALSE

\* the duplicate check overlooks the keys already attached
In_inheritedOnly(key, target) == target.fn /\ key \in FunctionKeys

\* key in target (238)
In(key, target) ==
  key \in DOMAIN target.props \/ (target.fn /\ key \in FunctionKeys)

\* target[key] = value
SetProp(target, key, value) ==
  [target EXCEPT !.props =
     [k \in (DOMAIN target.props) \cup {key} |-> IF k = key THEN value ELSE target.props[k]]]

\* Object.assign(target, source): own enumerable properties of source
ObjectAssign(target, source) ==
  [target EXCEPT !.props =
     [k \in (DOMAIN target.props) \cup (DOMAIN source.props) |->
        IF k \in DOMAIN source.props THEN source.props[k] ELSE target.props[k]]]

\* hasKeep (230)
hasKeep(pathDef) == \E i \in 1..Len(pathDef.list) : pathDef.list[i].kind = "keep"

k_when == <<"$","w","h","e","n">>
k_join == <<"$","j","o","i","n">>

\* a target that has children is returned without the modifiers
attachWhenAndJoin_leafOnly(target, basePath, list) ==
  IF Len(list) > 0 /\ ~target.fn THEN target
  ELSE SetProp(SetProp(target, k_when,
                       [cl |-> "when", basePath |-> basePath, list |-> list, isFn |-> target.fn]),
               k_join, [cl |-> "join", basePath |-> basePath, list |-> list, isFn |-> target.fn])

\* attachWhenAndJoin (286-306): the closures capture basePath, list and
\* whether target is a function
attachWhenAndJoin(target, basePath, list) ==
  LET w == [cl |-> "when", basePath |-> basePath, list |-> list, isFn |-> target.fn]
      j == [cl |-> "join", basePath |-> basePath, list |-> list, isFn |-> target.fn]
  IN SetProp(SetProp(target, k_when, w), k_join, j)

\* Array.isArray(seg) ? seg : [seg]     seg is [t |-> "arr" | "seg", v |-> ...]
AsArray(seg) == IF seg.t = "arr" THEN seg.v ELSE <<seg.v>>

\* [...x] for a mode value: an array spreads to its elements, a string to
\* its characters
Spread(x) == IF x.t = "arr" THEN x.v ELSE [i \in 1..Len(x.v) |-> <<x.v[i]>>]

\* keys a plain object literal inherits from Object.prototype
ObjectKeys == {"toString", "constructor", "valueOf"}

RECURSIVE buildNode(_, _)
RECURSIVE forChildren(_, _, _, _, _)

\* the hidden segments of a base are left out
mergeBase_noSegs(target, allPath, child) ==
  forChildren(target, allPath, child.list, 1, TRUE)

\* base child: its children are attached to the parent's target with the
\* hidden segments in front (spec 4.2 step 3, 4)
mergeBase(target, allPath, child) ==
  forChildren(target, allPath \o AsArray(child.segs), child.list, 1, TRUE)

\* one iteration of the loop of buildNode (236-281); merged says that the
\* children arrive through a base
attachChild(target, allPath, child, merged) ==
  IF child.kind = "keep" THEN target
  ELSE IF child.kind = "base" THEN mergeBase(target, allPath, child)
  ELSE IF In(child.uuid, target)
    THEN Throw(IF merged THEN "Merge collision" ELSE "Duplicate uuid")
  ELSE IF child.kind = "slot"
    THEN SetProp(target, child.uuid, [cl |-> "bind", allPath |-> allPath, child |-> child])
  ELSE IF child.kind = "path"
    THEN IF Len(child.list) = 0
           THEN LET leafPath == Append(allPath, child.name)
                IN SetProp(target, child.uuid,
                           attachWhenAndJoin(makeTarget(TRUE, leafPath), leafPath, <<>>))
           ELSE LET sub == buildNode(allPath, child)
                IN IF IsThrow(sub) THEN sub ELSE SetProp(target, child.uuid, sub)
  ELSE IF child.kind = "wrap"
    THEN SetProp(target, child.uuid, [cl |-> "wrap", allPath |-> allPath, child |-> child])
  ELSE SetProp(target, child.uuid, [cl |-> "pick", allPath |-> allPath, child |-> child])

\* for (const child of parent.list) ...  from index i on
forChildren(target, allPath, list, i, merged) ==
  IF i > Len(list) THEN target
  ELSE LET t == attachChild(target, allPath, list[i], merged)
       IN IF IsThrow(t) THEN t ELSE forChildren(t, allPath, list, i + 1, merged)

\* every named node appends its name, a slot included
allPathOf_anyKind(prefix, parent) ==
  IF parent.name # <<>> THEN Append(prefix, parent.name) ELSE prefix

\* allPath of buildNode (231)
allPathOf(prefix, parent) ==
  IF parent.kind = "path" /\ parent.name # <<>> THEN Append(prefix, parent.name) ELSE prefix

\* a node without children is callable whatever its kind
targetCallable_orEmpty(parent) == hasKeep(parent) \/ Len(parent.list) = 0

\* callability of the target built by buildNode (234)
targetCallable(parent) == hasKeep(parent)

\* buildNode (229-284)
buildNode(prefix, parent) ==
  LET allPath == allPathOf(prefix, parent)
      target == makeTarget(targetCallable(parent), allPath)
      filled == forChildren(target, allPath, parent.list, 1, FALSE)
  IN IF IsThrow(filled) THEN filled
     ELSE attachWhenAndJoin(filled, allPath, parent.list)

\* root (219-220)
root(defs) == buildNode(<<>>, path(<<>>, defs))

\* bind (246-256): the binder a slot child attaches
bind(c, param) ==
  LET next == Append(c.allPath, param)
  IN IF Len(c.child.list) = 0
       THEN attachWhenAndJoin(makeTarget(TRUE, next), next, <<>>)
       ELSE LET sub == buildNode(next, c.child)
            IN IF IsThrow(sub) THEN sub
               ELSE ObjectAssign(makeTarget(hasKeep(c.child), next), sub)

\* the segment is inserted whatever the predicate returns
wrapped_always(c, arg) == Append(c.allPath, c.child.name)

\* wrap (265-271): the gate a wrap child attaches
wrapped(c, arg) ==
  IF arg \in c.child.when THEN Append(c.allPath, c.child.name) ELSE c.allPath

gate(c, arg) ==
  LET sub == buildNode(wrapped(c, arg), c.child)
  IN IF IsThrow(sub) THEN sub
     ELSE ObjectAssign(makeTarget(hasKeep(c.child), wrapped(c, arg)), sub)

\* child.mode[value] is truthy
modeTruthy(mode, value) ==
  \/ value \in ObjectKeys
  \/ value \in DOMAIN mode /\ (mode[value].t = "arr" \/ mode[value].v # <<>>)

\* the mapped segments are not inserted
select_atHere(c, value) ==
  IF modeTruthy(c.child.mode, value)
    THEN IF value \notin DOMAIN c.child.mode
           THEN Throw("TypeError")
           ELSE buildNode(c.allPath, path(<<>>, c.child.list))
    ELSE Throw("unknown value")

\* an unknown key falls back to the unprefixed subtree
select_fallback(c, value) ==
  IF value \in DOMAIN c.child.mode /\ modeTruthy(c.child.mode, value)
    THEN buildNode(c.allPath \o Spread(c.child.mode[value]), path(<<>>, c.child.list))
    ELSE buildNode(c.allPath, path(<<>>, c.child.list))

\* the selector a pick child attaches (273-279)
select(c, value) ==
  IF modeTruthy(c.child.mode, value)
    THEN IF value \notin DOMAIN c.child.mode
           THEN Throw("TypeError")
           ELSE buildNode(c.allPath \o Spread(c.child.mode[value]), path(<<>>, c.child.list))
    ELSE Throw("unknown value")

\* the segments are appended whatever the condition
nextPathOf_always(c, cond, seg) == c.basePath \o AsArray(seg)

\* when (287-298)
nextPathOf(c, cond, seg) == IF cond THEN c.basePath \o AsArray(seg) ELSE c.basePath

\* the subtree is always rebuilt from the definition list
when_rebuildOnly(c, cond, seg) ==
  buildNode(nextPathOf(c, cond, seg), path(<<>>, c.list))

when(c, cond, seg) ==
  LET nextPath == nextPathOf(c, cond, seg)
  IN IF Len(c.list) = 0 /\ c.isFn
       THEN attachWhenAndJoin(makeTarget(TRUE, nextPath), nextPath, c.list)
       ELSE buildNode(nextPath, path(<<>>, c.list))

\* join passes a false condition
join_disabled(c, seg) == when(c, FALSE, seg)

\* join (301-303)
join(c, seg) == when(c, TRUE, seg)

\* the segments are pushed onto the basePath the receiver captured
afterModifier_pushed(r, cond, seg) ==
  IF cond THEN [r EXCEPT !.props[k_when].basePath = @ \o AsArray(seg),
                         !.props[k_join].basePath = @ \o AsArray(seg)]
  ELSE r

\* the receiver once $when / $join returned: nextPath is a fresh array
\* (288), the subtree is built on a fresh target (292, 297) and $when /
\* $join are written on that target only (300-303)
afterModifier(r, cond, seg) == r

\* target[child.uuid](arg): the call of a stored binder, gate or selector
invoke(c, arg) ==
  CASE c.cl = "bind" -> bind(c, arg)
    [] c.cl = "wrap" -> gate(c, arg)
    [] c.cl = "pick" -> select(c, arg)

\* the argument is pushed onto the allPath the closure captured
afterInvoke_pushed(r, key, arg) ==
  [r EXCEPT !.props[key].allPath = Append(@, IF r.props[key].cl = "bind" THEN arg ELSE <<arg>>)]

\* the receiver once a binder, gate or selector returned: next and wrapped
\* are fresh arrays (247, 267, 275), the subtree is built on a fresh target
\* and nothing is stored on the receiver or on the child definition
afterInvoke(r, key, arg) == r

\* --------------------------------------------------- predicate calls
\* one call child.when(arg) of the predicate of a wrap child
WhenCall(child, arg) == [uuid |-> child.uuid, when |-> child.when, arg |-> arg]

RECURSIVE callsOfBuild(_)
RECURSIVE callsOfList(_, _)

\* the calls of child.when made by one iteration of the loop of buildNode
\* (236-281): a path child with children is compiled at once (262), every
\* other branch stores a function or a leaf and calls nothing
callsOfChild(child) ==
  IF child.kind = "path" /\ Len(child.list) > 0 THEN callsOfBuild(child) ELSE <<>>

\* for (const child of parent.list) ...  from index i on
callsOfList(list, i) ==
  IF i > Len(list) THEN <<>> ELSE callsOfChild(list[i]) \o callsOfList(list, i + 1)

\* the predicate of every wrap child is called while its parent is compiled
callsOfBuild_eager(parent) ==
  LET wraps == SelectSeq(parent.list, LAMBDA ch : ch.kind = "wrap")
  IN [i \in 1..Len(wraps) |-> WhenCall(wraps[i], "null")]

\* the calls of child.when made by buildNode(prefix, parent) (229-284)
callsOfBuild(parent) == callsOfList(parent.list, 1)

\* the calls made by a stored binder (246-256), gate (265-271: child.when(arg)
\* at 266, then buildNode at 268) or selector (273-279) called with arg
callsOfInvoke(c, arg) ==
  CASE c.cl = "bind" -> IF Len(c.child.list) = 0 THEN <<>> ELSE callsOfBuild(c.child)
    [] c.cl = "wrap" -> <<WhenCall(c.child, arg)>> \o callsOfBuild(c.child)
    [] c.cl = "pick" -> IF modeTruthy(c.child.mode, arg) /\ arg \in DOMAIN c.child.mode
                          THEN callsOfBuild(path(<<>>, c.child.list))
                          ELSE <<>>

\* the calls made by $when / $join (287-303)
callsOfWhen(c) ==
  IF Len(c.list) = 0 /\ c.isFn THEN <<>> ELSE callsOfBuild(path(<<>>, c.list))

\* a property read and the call of a callable (223-227, 309) call no predicate
NoCalls == <<>>

\* --------------------------------------------------- inputs
s_cat == <<"c","a","t">>
s_books == <<"b","o","o","k","s">>
s_id == <<"i","d">>
s_ch == <<"c","h">>
s_jobs == <<"j","o","b","s">>
s_core == <<"c","o","r","e">>
s_admin == <<"a","d","m","i","n">>
s_user == <<"u","s","e","r">>
s_mode == <<"m","o","d","e">>
s_api == <<"a","p","i">>
s_v2 == <<"v","2">>
s_x == <<"x">>
s_gs_kebab == <<"g","-","s">>
s_gs_camel == <<"g","S">>
s_when == <<"w","h","e","n">>
s_join == <<"j","o","i","n">>
s_X == <<"X">>
s_7 == <<"#7">>
s_0 == <<"#0">>
s_role == <<"r","o","l","e">>
s_orders == <<"o","r","d","e","r","s">>
s_name == <<"n","a","m","e">>
s_invoices == <<"i","n","v","o","i","c","e","s">>
s_slashed == <<"/","a","/">>

\* wrap predicate u => !!u?.isAdmin over the arguments GateArgs
isAdmin == {"admin"}
GateArgs == {"admin", "guest", "null"}

Arr(v) == [t |-> "arr", v |-> v]
Seg(v) == [t |-> "seg", v |-> v]

modes == [admin |-> Arr(<<s_admin>>), user |-> Arr(<<>>), partner |-> Arr(<<s_user, s_v2>>)]
\* a mode map that gives one key a lone string instead of an array
roles == [admin |-> [t |-> "str", v |-> s_admin], user |-> Arr(<<s_user, s_role>>)]
SelectKeys == {"admin", "user", "partner", "nope", "toString"}

Params == {s_X, s_7, s_0, s_slashed}
Inserts == {Seg(s_v2), Arr(<<s_api, s_x>>), Seg(<<>>), Arr(<<<<>>, s_v2, <<>>>>), Seg(s_0)}

\* search arguments: none, strings, URLSearchParams and plain objects given
\* as their key/value pairs
a1b2 == << <<<<"a">>, <<"1">>>>, <<<<"b">>, <<"2">>>> >>
Searches ==
  {[t |-> "none"], [t |-> "str", v |-> <<>>], [t |-> "str", v |-> <<"a","=","1">>],
   [t |-> "usp", v |-> a1b2], [t |-> "obj", v |-> a1b2]}

Schemas == <<
  \* slots: leaf, nested, with keep, a path child named like the slot
  << path(s_cat, <<slot(s_id, <<>>),
                   path(s_books, <<slot(s_id, <<path(s_ch, <<>>), path(s_id, <<>>)>>)>>)>>),
     path(s_jobs, <<keep, slot(s_id, <<keep, path(s_ch, <<>>)>>), path(s_ch, <<>>)>>) >>,
  \* empty root, keep-only root, slot at the root
  << >>,
  << keep >>,
  << slot(s_id, <<>>), path(s_x, <<path(s_ch, <<>>)>>) >>,
  \* wrap with keep, wrap without children, path and wrap of the same name
  << path(s_core, <<keep,
                    wrap(s_admin, isAdmin, <<keep, path(s_jobs, <<keep>>)>>),
                    wrap(s_x, isAdmin, <<>>),
                    path(s_admin, <<path(s_jobs, <<keep>>)>>)>>) >>,
  \* wrap without keep under a slot
  << path(s_jobs, <<slot(s_id, <<wrap(s_admin, isAdmin,
                                      <<path(s_ch, <<keep>>), slot(s_id, <<>>)>>)>>)>>) >>,
  \* pick: one segment, none, several; shared subtree with a slot
  << path(s_core, <<pick(s_mode, modes, <<path(s_jobs, <<keep>>),
                                          path(s_cat, <<slot(s_id, <<keep>>)>>)>>),
                    path(s_ch, <<keep>>)>>) >>,
  \* a callable node with a child named like a property of functions
  << path(s_orders, <<keep, path(s_name, <<>>)>>) >>,
  \* pick whose mode gives a lone string for a key
  << path(s_core, <<pick(s_role, roles, <<path(s_invoices, <<keep>>)>>)>>) >>,
  \* pick without children, pick with keep
  << pick(s_mode, modes, <<>>), pick(s_x, modes, <<keep, path(s_ch, <<>>)>>) >>,
  \* duplicate normalized keys: paths, slot against wrap
  << path(s_core, <<path(s_gs_kebab, <<keep>>), path(s_gs_camel, <<keep>>)>>) >>,
  << path(s_core, <<slot(s_id, <<>>), path(s_x, <<>>), wrap(s_id, isAdmin, <<>>)>>) >>,
  \* duplicate keys inside a slot and inside a wrap
  << slot(s_id, <<path(s_ch, <<>>), path(s_ch, <<keep>>)>>),
     wrap(s_admin, isAdmin, <<path(s_x, <<slot(s_gs_kebab, <<>>), slot(s_gs_camel, <<>>)>>)>>) >>,
  \* children named like the modifiers
  << path(s_core, <<keep, slot(s_when, <<path(s_ch, <<>>)>>), path(s_when, <<>>)>>),
     wrap(s_join, isAdmin, <<path(s_jobs, <<keep>>)>>) >>,
  \* base: one segment, several, nested, with wrap and pick beneath
  << base(Seg(s_api), <<path(s_jobs, <<keep>>), path(s_cat, <<slot(s_id, <<keep>>)>>)>>) >>,
  << path(s_cat, <<base(Arr(<<s_api, s_v2>>), <<base(Seg(s_x), <<path(s_jobs, <<keep>>)>>),
                                                  slot(s_id, <<>>)>>),
                   path(s_user, <<keep>>)>>) >>,
  << base(Seg(s_api), <<wrap(s_admin, isAdmin, <<path(s_jobs, <<keep>>)>>),
                        pick(s_mode, modes, <<path(s_jobs, <<keep>>)>>)>>) >>,
  \* base: merge collisions
  << path(s_x, <<path(s_gs_kebab, <<keep>>), base(Seg(s_api), <<path(s_gs_camel, <<keep>>)>>)>>) >>,
  << base(Seg(s_api), <<slot(s_id, <<>>)>>), base(Seg(s_v2), <<wrap(s_id, isAdmin, <<>>)>>) >>,
  << slot(s_id, <<base(Seg(s_api), <<path(s_ch, <<keep>>)>>), path(s_ch, <<>>)>>) >>
>>

\* --------------------------------------------------- the caller's view
\* The reference reading of a definition list, used to follow the chain of
\* accesses: the non-keep children in order, base nodes replaced by their
\* children, each with the hidden segments in front of it.
RECURSIVE Visible(_, _)
Visible(l, hid) ==
  IF Len(l) = 0 THEN <<>>
  ELSE LET c == Head(l)
       IN (IF c.kind = "keep" THEN <<>>
           ELSE IF c.kind = "base" THEN Visible(c.list, hid \o AsArray(c.segs))
           ELSE << [hid |-> hid, c |-> c] >>)
          \o Visible(Tail(l), hid)

\* the visible child of definition list l stored under key
Find(l, key) ==
  LET v == Visible(l, <<>>)
  IN v[CHOOSE i \in 1..Len(v) : v[i].c.uuid = key /\ \A j \in 1..(i - 1) : v[j].c.uuid # key]

Nothing == [nothing |-> TRUE]
NoStep == [op |-> "none"]

VARIABLES
  pc,     \* "start", "defined", "compiled", "failed", "rejected"
  defs,   \* the definition list handed to root
  api,    \* the object root returned
  cur,    \* the compiled route the caller holds
  prev,   \* the route the caller held before the last invocation
  here,   \* the prefix path of cur according to the chain of invocations
  list,   \* the child definitions of the node cur was compiled from
  kind,   \* the kind of that node: "root", "path", "slot", "wrap", "pick"
  last,   \* the last invocation: [op, key, arg, ...]
  err,    \* what the last invocation threw, "none" if it returned
  out,    \* the string the last call of a callable returned
  mods,   \* number of $when / $join invocations so far
  peer,   \* what a second caller got from the branch last invoked: [arg, res]
  evals   \* the calls of wrap predicates the last invocation made

vars == <<pc, defs, api, cur, prev, here, list, kind, last, err, out, mods, peer, evals>>

Init ==
  /\ pc = "start"
  /\ defs = <<>>
  /\ api = Nothing
  /\ cur = Nothing
  /\ prev = Nothing
  /\ here = <<>>
  /\ list = <<>>
  /\ kind = "none"
  /\ last = NoStep
  /\ err = "none"
  /\ out = <<>>
  /\ mods = 0
  /\ peer = Nothing
  /\ evals = <<>>

\* the first child definition is taken off the list while it is compiled
definitionsAfter_shifted(d) == IF d = <<>> THEN d ELSE Tail(d)

\* the definition list once compiled code ran over it: buildNode and the
\* closures read parent.list and the kind, name, uuid, list, mode and when
\* of a child (230-275, 297) and write on targets they created only
definitionsAfter(d) == d

\* the schema author builds a definition tree
Define ==
  /\ pc = "start"
  /\ \E i \in 1..Len(Schemas) : defs' = Schemas[i]
  /\ pc' = "defined"
  /\ UNCHANGED <<api, cur, prev, here, list, kind, last, err, out, mods, peer, evals>>

\* root(defs)
Root ==
  /\ pc = "defined"
  /\ LET r == root(defs)
     IN IF IsThrow(r)
          THEN /\ pc' = "failed"
               /\ err' = r.throws
               /\ UNCHANGED <<api, cur>>
          ELSE /\ pc' = "compiled"
               /\ err' = "none"
               /\ api' = r
               /\ cur' = r
  /\ prev' = cur
  /\ here' = <<>>
  /\ list' = defs
  /\ kind' = "root"
  /\ last' = [op |-> "root", from |-> <<>>, tried |-> defs]
  /\ defs' = definitionsAfter(defs)
  /\ evals' = callsOfBuild(path(<<>>, defs))
  /\ UNCHANGED <<out, mods, peer>>

\* the outcome of an invocation that returns a route or throws
Returns(res, h, l, k) ==
  IF IsThrow(res)
    THEN /\ err' = res.throws
         /\ UNCHANGED <<cur, here, list, kind>>
    ELSE /\ err' = "none"
         /\ cur' = res
         /\ here' = h
         /\ list' = l
         /\ kind' = k

\* the caller holds a compiled route; a chain of accesses ends with the
\* call that returns its URL
Chaining == pc = "compiled" /\ last.op # "call"

\* property access route.key for a path child
Get ==
  /\ Chaining
  /\ \E key \in DOMAIN cur.props :
       /\ IsRoute(cur.props[key])
       /\ LET v == Find(list, key)
          IN /\ Returns(cur.props[key], here \o v.hid \o <<v.c.name>>, v.c.list, "path")
             /\ last' = [op |-> "get", key |-> key, child |-> v.c, hid |-> v.hid, from |-> here]
  /\ evals' = NoCalls
  /\ prev' = cur
  /\ out' = <<>>
  /\ peer' = Nothing
  /\ defs' = definitionsAfter(defs)
  /\ UNCHANGED <<pc, api, mods>>

\* route.$key(param) for a slot child
Bind ==
  /\ Chaining
  /\ \E key \in DOMAIN cur.props, param \in Params :
       /\ IsClosure(cur.props[key]) /\ cur.props[key].cl = "bind"
       /\ LET v == Find(list, key)
          IN /\ Returns(bind(cur.props[key], param), here \o v.hid \o <<param>>, v.c.list, "slot")
             /\ last' = [op |-> "bind", key |-> key, child |-> v.c, hid |-> v.hid, arg |-> param,
                         from |-> here, tried |-> v.c.list, recv |-> cur]
       /\ prev' = afterInvoke(cur, key, param)
       /\ evals' = callsOfInvoke(cur.props[key], param)
  /\ out' = <<>>
  /\ peer' = Nothing
  /\ defs' = definitionsAfter(defs)
  /\ UNCHANGED <<pc, api, mods>>

\* route.$key(arg) for a wrap child
Gate ==
  /\ Chaining
  /\ \E key \in DOMAIN cur.props, arg \in GateArgs :
       /\ IsClosure(cur.props[key]) /\ cur.props[key].cl = "wrap"
       /\ LET v == Find(list, key)
              on == arg \in v.c.when
          IN /\ Returns(gate(cur.props[key], arg),
                        here \o v.hid \o (IF on THEN <<v.c.name>> ELSE <<>>), v.c.list, "wrap")
             /\ last' = [op |-> "gate", key |-> key, child |-> v.c, hid |-> v.hid, arg |-> arg,
                         from |-> here, tried |-> v.c.list, recv |-> cur]
       /\ prev' = afterInvoke(cur, key, arg)
       /\ evals' = callsOfInvoke(cur.props[key], arg)
  /\ out' = <<>>
  /\ peer' = Nothing
  /\ defs' = definitionsAfter(defs)
  /\ UNCHANGED <<pc, api, mods>>

\* route.$key(value) for a pick child
Select ==
  /\ Chaining
  /\ \E key \in DOMAIN cur.props, value \in SelectKeys :
       /\ IsClosure(cur.props[key]) /\ cur.props[key].cl = "pick"
       /\ LET v == Find(list, key)
              segs == IF value \in DOMAIN v.c.mode THEN Spread(v.c.mode[value]) ELSE <<>>
          IN /\ Returns(select(cur.props[key], value), here \o v.hid \o segs, v.c.list, "pick")
             /\ last' = [op |-> "select", key |-> key, child |-> v.c, hid |-> v.hid, arg |-> value,
                         from |-> here, tried |-> v.c.list, recv |-> cur]
       /\ prev' = afterInvoke(cur, key, value)
       /\ evals' = callsOfInvoke(cur.props[key], value)
  /\ out' = <<>>
  /\ peer' = Nothing
  /\ defs' = definitionsAfter(defs)
  /\ UNCHANGED <<pc, api, mods>>

\* route.$when(cond, seg)
When ==
  /\ Chaining
  /\ mods < MaxMods
  /\ \E cond \in BOOLEAN, seg \in Inserts :
       /\ Returns(when(cur.props[k_when], cond, seg),
                  IF cond THEN here \o AsArray(seg) ELSE here, list, kind)
       /\ last' = [op |-> "when", cond |-> cond, arg |-> seg, from |-> here, tried |-> list,
                   recv |-> cur]
       /\ prev' = afterModifier(cur, cond, seg)
       /\ evals' = callsOfWhen(cur.props[k_when])
  /\ out' = <<>>
  /\ mods' = mods + 1
  /\ peer' = Nothing
  /\ defs' = definitionsAfter(defs)
  /\ UNCHANGED <<pc, api>>

\* route.$join(seg)
Join ==
  /\ Chaining
  /\ mods < MaxMods
  /\ \E seg \in Inserts :
       /\ Returns(join(cur.props[k_join], seg), here \o AsArray(seg), list, kind)
       /\ last' = [op |-> "join", arg |-> seg, from |-> here, tried |-> list, recv |-> cur]
       /\ prev' = afterModifier(cur, TRUE, seg)
       /\ evals' = callsOfWhen(cur.props[k_join])
  /\ out' = <<>>
  /\ mods' = mods + 1
  /\ peer' = Nothing
  /\ defs' = definitionsAfter(defs)
  /\ UNCHANGED <<pc, api>>

\* route(search) for a callable route
Call ==
  /\ Chaining
  /\ cur.fn
  /\ \E search \in Searches :
       /\ out' = url(cur.path, search)
       /\ last' = [op |-> "call", arg |-> search]
  /\ evals' = NoCalls
  /\ err' = "none"
  /\ prev' = cur
  /\ peer' = Nothing
  /\ defs' = definitionsAfter(defs)
  /\ UNCHANGED <<pc, api, cur, here, list, kind, mods>>

\* the arguments a second caller may pass to a branch of that kind
ArgsOf(cl) ==
  CASE cl = "bind" -> Params
    [] cl = "wrap" -> GateArgs
    [] cl = "pick" -> SelectKeys

\* a second caller invokes the branch the first caller just invoked, on the
\* same receiver, with an argument of its own
Peer ==
  /\ Chaining
  /\ last.op \in {"bind", "gate", "select"}
  /\ err = "none"
  /\ peer = Nothing
  /\ \E arg \in ArgsOf(prev.props[last.key].cl) \ {last.arg} :
       LET res == invoke(prev.props[last.key], arg)
       IN /\ peer' = [arg |-> arg, res |-> res]
          /\ prev' = afterInvoke(prev, last.key, arg)
          /\ evals' = callsOfInvoke(prev.props[last.key], arg)
  /\ defs' = definitionsAfter(defs)
  /\ UNCHANGED <<pc, api, cur, here, list, kind, last, err, out, mods>>

Next == Define \/ Root \/ Get \/ Bind \/ Gate \/ Select \/ When \/ Join \/ Call \/ Peer

Spec == Init /\ [][Next]_vars

\* --------------------------------------------------- naming a node
\* the names a schema author may type: up to MaxName characters, letters,
\* digits, the two delimiters and characters no identifier holds
NameChars == {"a", "Z", "0", "-", "_", " ", "/", ".", "?", "#"}
Names == UNION {[1..n -> NameChars] : n \in 0..MaxName}
NodeKinds == {"path", "slot", "wrap", "pick"}

\* the constructor of that kind applied to name
construct(k, name) ==
  CASE k = "path" -> path(name, <<keep>>)
    [] k = "slot" -> slot(name, <<keep>>)
    [] k = "wrap" -> wrap(name, isAdmin, <<keep>>)
    [] k = "pick" -> pick(name, modes, <<keep>>)

\* the schema author calls one constructor: it throws, or it returns the
\* node the definition list is then made of
Construct ==
  /\ pc = "start"
  /\ \E k \in NodeKinds, name \in Names :
       LET node == construct(k, name)
       IN /\ last' = [op |-> "construct", kind |-> k, name |-> name]
          /\ IF IsThrow(node)
               THEN /\ pc' = "rejected"
                    /\ err' = node.throws
                    /\ UNCHANGED defs
               ELSE /\ pc' = "defined"
                    /\ err' = "none"
                    /\ defs' = <<node>>
  /\ UNCHANGED <<api, cur, prev, here, list, kind, out, mods, peer, evals>>

NameNext == Construct \/ Root

NameSpec == Init /\ [][NameNext]_vars

\* --------------------------------------------------- reading a route
\* the prefix path baked into the modifiers of a compiled route
HereOf(r) == r.props[k_when].basePath

HasKeepIn(l) == \E i \in 1..Len(l) : l[i].kind = "keep"
HasBaseIn(l) == \E i \in 1..Len(l) : l[i].kind = "base"
Modifiers == {k_when, k_join}
VisibleKeys(l) == {Visible(l, <<>>)[i].c.uuid : i \in 1..Len(Visible(l, <<>>))}

\* compiled route r is the compilation of definition list l at prefix h:
\* its own path and the path of every route and closure stored on it, down
\* through all path children
RECURSIVE Conforms(_, _, _)
Conforms(r, h, l) ==
  /\ IsRoute(r)
  /\ r.fn => r.path = h
  /\ HereOf(r) = h
  /\ DOMAIN r.props = VisibleKeys(l) \cup Modifiers
  /\ \A i \in 1..Len(Visible(l, <<>>)) :
       LET c == Visible(l, <<>>)[i].c
           at == h \o Visible(l, <<>>)[i].hid
           e == r.props[c.uuid]
       IN c.uuid \notin Modifiers =>
            IF c.kind = "path"
              THEN /\ Conforms(e, Append(at, c.name), c.list)
                   /\ Len(c.list) = 0 => e.fn
              ELSE /\ IsClosure(e)
                   /\ e.cl = (CASE c.kind = "slot" -> "bind"
                                [] c.kind = "wrap" -> "wrap"
                                [] c.kind = "pick" -> "pick")
                   /\ e.allPath = at
                   /\ e.child = c

\* route or closure x with segs inserted after the first n segments of every
\* path it captured
InsertAt(p, n, segs) == SubSeq(p, 1, n) \o segs \o SubSeq(p, n + 1, Len(p))

RECURSIVE Graft(_, _, _)
Graft(x, n, segs) ==
  IF IsRoute(x)
    THEN [fn |-> x.fn,
          path |-> IF x.fn THEN InsertAt(x.path, n, segs) ELSE <<>>,
          props |-> [k \in DOMAIN x.props |-> Graft(x.props[k], n, segs)]]
  ELSE IF x.cl \in {"when", "join"}
    THEN [x EXCEPT !.basePath = InsertAt(@, n, segs)]
    ELSE [x EXCEPT !.allPath = InsertAt(@, n, segs)]

Returned == pc = "compiled" /\ err = "none"

\* --------------------------------------------------- claims
\* C1: calling a slot's binder with parameter p yields a route compiled at
\* the parent's prefix followed by p alone; the slot's name is no segment of
\* the route, of its path children or of the closures stored beneath it.
C1_SlotNameExcluded ==
  (Returned /\ last.op = "bind") =>
    /\ here = last.from \o last.hid \o <<last.arg>>
    /\ Conforms(cur, last.from \o last.hid \o <<last.arg>>, last.child.list)

\* a binder of a slot with children was called and a path child was reached
C1_Witness ==
  /\ Returned /\ last.op = "get" /\ kind = "path"
  /\ here = <<s_cat, s_books, s_X, s_ch>>
  /\ cur.fn /\ cur.path = here

\* C2 as stated: a compiled route is callable iff its child list contains
\* keep() or is empty, whatever node it was compiled from.
C2_CallableIffKeepOrEmpty ==
  pc = "compiled" => (cur.fn <=> (HasKeepIn(list) \/ Len(list) = 0))

\* C2 amended: a compiled route is callable iff its child list contains
\* keep(), or it is empty and the node is a path or a slot; a callable route
\* returns the URL of its own prefix path.
C2_CallableIffKeepOrLeaf ==
  pc = "compiled" =>
    /\ cur.fn <=> (HasKeepIn(list) \/ (Len(list) = 0 /\ kind \in {"path", "slot"}))
    /\ cur.fn => cur.path = here
    /\ (last.op = "call" /\ err = "none") => out = url(here, last.arg)

\* root([]) compiled to a namespace that is not callable, and a wrap
\* without children did too
C2_Witness ==
  /\ pc = "compiled" /\ Len(list) = 0 /\ ~cur.fn
  /\ kind \in {"root", "wrap", "pick"}

\* C3: a gate compiles the wrap's children at here + [name] when the
\* predicate holds and at here otherwise; the two results have the same
\* keys and callability and differ by exactly the segment name.
C3_WrapEnabledDisabled ==
  (Returned /\ last.op = "gate") =>
    LET w == last.child
        at == last.from \o last.hid
        on == last.arg \in w.when
    IN /\ here = (IF on THEN Append(at, w.name) ELSE at)
       /\ Conforms(cur, here, w.list)
       /\ HasKeepIn(w.list) => (cur.fn /\ cur.path = here)
       /\ \A a \in GateArgs :
            LET other == gate(prev.props[last.key], a)
            IN /\ IsRoute(other)
               /\ DOMAIN other.props = DOMAIN cur.props
               /\ other.fn = cur.fn
               /\ (on /\ a \notin w.when) => cur = Graft(other, Len(at), <<w.name>>)
               /\ (on <=> a \in w.when) => cur = other

\* an enabled gate of a wrap with keep() and children returned a callable
C3_Witness ==
  /\ Returned /\ last.op = "gate" /\ last.arg \in last.child.when
  /\ cur.fn /\ cur.path = <<s_core, s_admin>>
  /\ s_jobs \in DOMAIN cur.props

\* C4: a selector called with a key of the mode map compiles the pick's
\* children at here + mode[key], segments in declared order; an empty
\* sequence adds nothing.  (Mode values that are sequences of segments.)
C4_PickSelectsSegments ==
  (Returned /\ last.op = "select" /\ last.arg \in DOMAIN last.child.mode
     /\ last.child.mode[last.arg].t = "arr") =>
    LET at == last.from \o last.hid
        segs == last.child.mode[last.arg].v
    IN /\ here = at \o segs
       /\ Conforms(cur, at \o segs, last.child.list)
       /\ Len(segs) = 0 => cur = buildNode(at, path(<<>>, last.child.list))

\* a key mapped to two segments was selected
C4_Witness ==
  /\ Returned /\ last.op = "select" /\ last.arg = "partner"
  /\ here = <<s_core, s_user, s_v2>>
  /\ HereOf(cur.props[s_jobs]) = <<s_core, s_user, s_v2, s_jobs>>

\* C5: a selector called with a key absent from the mode map throws and
\* returns no route; the caller's route and the root object are as before.
C5_UnknownSelectionThrows ==
  (pc = "compiled" /\ last.op = "select" /\ last.arg \notin DOMAIN last.child.mode) =>
    /\ err \in {"unknown value", "TypeError"}
    /\ cur = prev
    /\ here = last.from
    /\ Conforms(cur, here, list)
    /\ api = root(defs)

\* an unmapped key was selected
C5_Witness ==
  /\ pc = "compiled" /\ last.op = "select" /\ last.arg = "nope"
  /\ err = "unknown value" /\ cur = prev

\* two visible children in v have the same key
DupIn(v) == \E i, j \in 1..Len(v) : i < j /\ v[i].c.uuid = v[j].c.uuid

\* the non-keep, non-base children of l, as Visible lists them
RECURSIVE Direct(_)
Direct(l) ==
  IF Len(l) = 0 THEN <<>>
  ELSE (IF Head(l).kind \in {"keep", "base"} THEN <<>> ELSE << [hid |-> <<>>, c |-> Head(l)] >>)
       \o Direct(Tail(l))

\* l, or the list of a path descendant compiled along with it, has two
\* direct children with the same key
RECURSIVE EagerDup(_)
EagerDup(l) ==
  \/ DupIn(Direct(l))
  \/ \E i \in 1..Len(l) : l[i].kind = "path" /\ EagerDup(l[i].list)

\* the same with base nodes replaced by their children
RECURSIVE EagerVisibleDup(_)
EagerVisibleDup(l) ==
  \/ DupIn(Visible(l, <<>>))
  \/ \E i \in 1..Len(Visible(l, <<>>)) :
       Visible(l, <<>>)[i].c.kind = "path" /\ EagerVisibleDup(Visible(l, <<>>)[i].c.list)

\* the last invocation ran the compiler over last.tried
Compiling ==
  \/ last.op \in {"root", "bind", "gate", "when", "join"}
  \/ last.op = "select" /\ last.arg \in DOMAIN last.child.mode

Collisions == {"Duplicate uuid", "Merge collision"}

NoRouteReturned ==
  /\ err # "none"
  /\ last.op = "root" => (pc = "failed" /\ api = Nothing /\ cur = Nothing)
  /\ last.op # "root" => cur = prev

\* C6: a base node introduces no key; its children are attached to the
\* parent's route under their own keys with the base segments in front,
\* nested bases outer-first, wrap and pick segments after them.
C6_BaseTransparent ==
  /\ (Returned /\ HasBaseIn(list)) => Conforms(cur, here, list)
  /\ (Returned /\ last.op \in {"get", "bind", "gate", "select"} /\ Len(last.hid) > 0) =>
       /\ SubSeq(HereOf(cur), 1, Len(last.from) + Len(last.hid)) = last.from \o last.hid
       /\ Conforms(cur, here, list)

\* a path child was reached through two nested base nodes
C6_Witness ==
  /\ Returned /\ last.op = "get" /\ last.hid = <<s_api, s_v2, s_x>>
  /\ cur.fn /\ cur.path = <<s_cat, s_api, s_v2, s_x, s_jobs>>
  /\ prev.props[<<"$","i","d">>].allPath = <<s_cat, s_api, s_v2>>

\* C7: compiling a node two of whose non-keep children have the same
\* normalized key throws a collision error and returns no route.
C7_DuplicateKeysThrow ==
  (pc \in {"compiled", "failed"} /\ Compiling /\ EagerDup(last.tried)) =>
    /\ err \in Collisions
    /\ NoRouteReturned

\* root threw on g-s against gS
C7_Witness ==
  /\ pc = "failed" /\ last.op = "root" /\ err = "Duplicate uuid"
  /\ DupIn(Direct(defs[1].list))
  /\ defs[1].list[1].name # defs[1].list[2].name

EntryIs(e, c) ==
  IF c.kind = "path" THEN IsRoute(e)
  ELSE /\ IsClosure(e)
       /\ e.cl = (CASE c.kind = "slot" -> "bind"
                    [] c.kind = "wrap" -> "wrap"
                    [] c.kind = "pick" -> "pick")
       /\ e.child = c

\* C9: after a compilation returned, the property stored under the key of
\* each non-keep child is the route, binder, gate or selector built for it;
\* the attachment of $when and $join overwrites none.
C9_NoChildOverwritten ==
  Returned =>
    \A i \in 1..Len(Visible(list, <<>>)) :
      /\ Visible(list, <<>>)[i].c.uuid \in DOMAIN cur.props
      /\ EntryIs(cur.props[Visible(list, <<>>)[i].c.uuid], Visible(list, <<>>)[i].c)

\* C10: $when(true, s) and $join(s) return the same route: the children
\* recompiled at here + s, with the keys and callability of the original
\* and every captured path that of the original with s inserted after here.
C10_WhenTrueIsJoin ==
  (pc = "compiled" /\ last.op \in {"when", "join"}
     /\ (last.op = "when" => last.cond)) =>
    LET s == AsArray(last.arg)
    IN /\ err = "none"
       /\ here = last.from \o s
       /\ Conforms(cur, last.from \o s, list)
       /\ cur = Graft(prev, Len(last.from), s)
       /\ DOMAIN cur.props = DOMAIN prev.props
       /\ cur.fn = prev.fn
       /\ cur = join(prev.props[k_join], last.arg)
       /\ cur = when(prev.props[k_when], TRUE, last.arg)

\* two segments were joined after a slot's parameter, before the children
C10_Witness ==
  /\ Returned /\ last.op = "join" /\ last.arg = Arr(<<s_api, s_x>>)
  /\ last.from = <<s_jobs, s_X>>
  /\ cur.fn /\ cur.path = <<s_jobs, s_X, s_api, s_x>>
  /\ HereOf(cur.props[s_ch]) = <<s_jobs, s_X, s_api, s_x, s_ch>>

\* --------------------------------------------------- runtime modifiers
\* C11: R.$when(false, s) is a no-op for every segment or segment sequence
\* s, empty strings included: the route returned has the keys, the
\* callability and every captured path of R, hence the same URL for every
\* chain of accesses and calls.
C11_WhenFalseNoOp ==
  (pc = "compiled" /\ last.op = "when" /\ ~last.cond) =>
     /\ err = "none"
     /\ cur = prev
     /\ cur.fn = prev.fn
     /\ DOMAIN cur.props = DOMAIN prev.props
     /\ here = last.from

C11_Witness ==
  /\ pc = "compiled" /\ last.op = "when" /\ ~last.cond
  /\ last.arg = Arr(<<<<>>, s_v2, <<>>>>)
  /\ Len(last.from) > 0
  /\ \E k \in DOMAIN cur.props : IsClosure(cur.props[k]) /\ cur.props[k].cl = "bind"
  /\ \E k \in DOMAIN cur.props : IsRoute(cur.props[k])

\* the compiled routes reachable from r by property access alone
RECURSIVE Reach(_)
Reach(r) ==
  {r} \cup UNION {Reach(r.props[k]) : k \in {j \in DOMAIN r.props : IsRoute(r.props[j])}}

\* every URL the callables reachable from r return
UrlsOf(r) == {url(x.path, q) : x \in {y \in Reach(r) : y.fn}, q \in Searches}

Contributed(c, arg) ==
  CASE c.kind = "slot" -> <<arg>>
    [] c.kind = "wrap" -> IF arg \in c.when THEN <<c.name>> ELSE <<>>
    [] c.kind = "pick" -> IF arg \in DOMAIN c.mode THEN Spread(c.mode[arg]) ELSE <<>>

IsLeaf(r) == IsRoute(r) /\ r.fn /\ DOMAIN r.props = Modifiers

\* C14: a pure callable leaf (path leaf, bound slot leaf, keep-only node)
\* modified with $when(c, s) or $join(s) is again a callable leaf: it
\* returns the URL of the new prefix (the old prefix when c is false) for
\* every search, and carries $when and $join bound to that prefix, so that
\* a further modifier yields a callable leaf once more.
C14_LeafPreserved ==
  (pc = "compiled" /\ last.op \in {"when", "join"} /\ IsLeaf(last.recv)) =>
     LET on == last.op = "join" \/ last.cond
         next == IF on THEN last.from \o AsArray(last.arg) ELSE last.from
     IN /\ err = "none"
        /\ IsLeaf(cur)
        /\ cur.path = next
        /\ \A q \in Searches : url(cur.path, q) = url(next, q)
        /\ cur.props[k_when].cl = "when" /\ cur.props[k_join].cl = "join"
        /\ HereOf(cur) = next
        /\ \A seg \in Inserts, c \in BOOLEAN :
             /\ IsLeaf(when(cur.props[k_when], c, seg))
             /\ IsLeaf(join(cur.props[k_join], seg))
             /\ join(cur.props[k_join], seg).path = next \o AsArray(seg)

C14_Witness ==
  /\ pc = "compiled" /\ last.op = "when" /\ last.cond /\ IsLeaf(last.recv)
  /\ kind = "slot" /\ list = <<>>
  /\ last.arg = Arr(<<s_api, s_x>>)
  /\ cur.fn /\ cur.path = last.from \o <<s_api, s_x>>

\* seg without its empty-string entries
NoEmpty(seg) == IF seg.t = "arr" THEN Arr(SelectSeq(seg.v, LAMBDA x : x # <<>>)) ELSE seg

\* a and b answer the same property chains with the same URLs
RECURSIVE SameCalls(_, _)
SameCalls(a, b) ==
  IF IsThrow(a) \/ IsThrow(b) THEN a = b
  ELSE /\ a.fn = b.fn
       /\ a.fn => \A q \in Searches : url(a.path, q) = url(b.path, q)
       /\ DOMAIN a.props = DOMAIN b.props
       /\ \A k \in DOMAIN a.props :
            IF IsRoute(a.props[k])
              THEN IsRoute(b.props[k]) /\ SameCalls(a.props[k], b.props[k])
              ELSE IsClosure(b.props[k]) /\ a.props[k].cl = b.props[k].cl

\* the same, and every binder, gate, selector and modifier stored on a or on
\* a route below it yields routes answering with the same URLs
RECURSIVE SameUrls(_, _)
SameUrls(a, b) ==
  /\ SameCalls(a, b)
  /\ \A k \in DOMAIN a.props :
       LET x == a.props[k]
           y == b.props[k]
       IN IF IsRoute(x) THEN SameUrls(x, y)
          ELSE IF x.cl \in {"when", "join"}
            THEN \A seg \in Inserts : SameCalls(when(x, TRUE, seg), when(y, TRUE, seg))
            ELSE \A arg \in ArgsOf(x.cl) : SameCalls(invoke(x, arg), invoke(y, arg))

\* seg is the empty string or an array holding one
HasEmpty(seg) == seg = Seg(<<>>) \/ (seg.t = "arr" /\ \E i \in 1..Len(seg.v) : seg.v[i] = <<>>)

\* the route the modifier closure c yields for seg once the empty strings
\* are taken out: the insert of what is left, or no insert at all
WithoutEmpty(r, seg) ==
  IF seg = Seg(<<>>) THEN r ELSE join(r.props[k_join], NoEmpty(seg))

\* C15: empty-string segments given to $when / $join produce no path
\* component. The route returned for s answers every chain with the URLs of
\* the route returned for s without its empty strings; for the single
\* segment '' it answers with the URLs of the unmodified route; and the same
\* holds for one more insert on the route returned.
C15_EmptySegmentsDropped ==
  (pc = "compiled" /\ err = "none" /\ (last.op = "join" \/ (last.op = "when" /\ last.cond))) =>
     /\ HasEmpty(last.arg) => SameUrls(cur, WithoutEmpty(last.recv, last.arg))
     /\ \A seg \in {x \in Inserts : HasEmpty(x)} :
          SameCalls(join(cur.props[k_join], seg), WithoutEmpty(cur, seg))

C15_Witness ==
  /\ pc = "compiled" /\ last.op = "join" /\ last.arg = Arr(<<<<>>, s_v2, <<>>>>)
  /\ cur.fn /\ Len(cur.path) = Len(last.from) + 3
  /\ url(cur.path, [t |-> "none"]) = url(last.from \o <<s_v2>>, [t |-> "none"])
  /\ \E k \in DOMAIN cur.props : IsRoute(cur.props[k])
  /\ \E k \in DOMAIN cur.props : IsClosure(cur.props[k]) /\ cur.props[k].cl = "bind"

\* --------------------------------------------------- serialized URLs
\* the part of a URL in front of the first '?'
RECURSIVE PathPart(_)
PathPart(u) ==
  IF u = <<>> \/ Head(u) = "?" THEN <<>> ELSE <<Head(u)>> \o PathPart(Tail(u))

\* C16: every URL a callable returns, whatever slot parameters and inserted
\* segments the caller supplied, has a path part that begins with exactly
\* one '/', holds no two consecutive '/', and ends with '/' only when no
\* segment is left after the empty ones are dropped, the path being then
\* exactly '/'.
C16_UrlWellFormed ==
  (pc = "compiled" /\ last.op = "call") =>
     LET P == PathPart(out)
     IN /\ Len(P) > 0 /\ P[1] = "/"
        /\ \A i \in 1..(Len(P) - 1) : ~(P[i] = "/" /\ P[i + 1] = "/")
        /\ P[Len(P)] = "/" => P = <<"/">>
        /\ P = <<"/">> <=> Filter(here) = <<>>

\* no segment of path p holds a '/'
SlashFree(p) == \A i \in 1..Len(p) : "/" \notin Range(p[i])

\* C17: the serializer drops a segment only when it is the empty string;
\* every other segment, string or integer, the integer 0 included, is
\* stringified and is a component of the URL at the position where it was
\* contributed. (null and undefined are no Segment and are not supplied.)
C17_OnlyEmptyDropped ==
  (pc = "compiled" /\ last.op = "call" /\ SlashFree(here)) =>
     PathPart(out) = <<"/">> \o JoinSlash(SelectSeq(here, LAMBDA x : x # <<>>))

NoSearch == [t |-> "none"]

\* C18: a callable whose URL path is P returns exactly P, without '?', when
\* called with no argument or with the empty string, and P ? q with q
\* verbatim when called with a non-empty string q; P is the whole prefix of
\* the chain, the segments of slot, wrap, pick, $when and $join included, so
\* the query comes last.
C18_QuerySuffix ==
  (pc = "compiled" /\ last.op = "call" /\ last.arg.t \in {"none", "str"}) =>
     LET P == url(here, NoSearch)
         q == IF last.arg.t = "str" THEN last.arg.v ELSE <<>>
     IN /\ "?" \notin Range(P)
        /\ P = url(cur.path, NoSearch)
        /\ q = <<>> => out = P
        /\ q # <<>> => out = P \o <<"?">> \o q

C18_Witness ==
  /\ pc = "compiled" /\ last.op = "call" /\ last.arg = [t |-> "str", v |-> <<"a","=","1">>]
  /\ mods = 1 /\ kind = "path" /\ Len(here) >= 4
  /\ \E i \in 1..Len(here) : here[i] = s_X
  /\ out = url(here, NoSearch) \o <<"?","a","=","1">>

\* C19: a callable accepts the query as a URLSearchParams and as a plain
\* key/value object besides the string: for both the URL is the path, '?',
\* and the key=value pairs joined by '&', the string the equivalent
\* pre-serialized query gives.
C19_QueryRepresentations ==
  (pc = "compiled" /\ last.op = "call" /\ last.arg.t \in {"usp", "obj"}) =>
     /\ out = url(here, NoSearch) \o <<"?">> \o JoinAmp(last.arg.v)
     /\ out = url(cur.path, [t |-> "str", v |-> JoinAmp(last.arg.v)])

\* --------------------------------------------------- names
\* a name the constructor of kind k must refuse: a character outside
\* [A-Za-z0-9_-], a leading digit, or, but for path, the empty name
BadName(k, name) ==
  \/ \E i \in 1..Len(name) : ~(IsAlnum(name[i]) \/ name[i] \in {"_", "-"})
  \/ name # <<>> /\ IsDigit(name[1])
  \/ name = <<>> /\ k # "path"

\* C20: names are validated when the node is constructed. path, slot, wrap
\* and pick throw for a name holding a character outside [A-Za-z0-9_-] or
\* beginning with a digit, and slot, wrap and pick for the empty name as
\* well: no node is returned and root is never reached with it, so every
\* definition list, and every object compiled from one, is made of nodes
\* whose names passed.
C20_NamesValidatedAtConstruction ==
  /\ (last.op = "construct" /\ BadName(last.kind, last.name)) =>
        /\ pc = "rejected" /\ err = "name"
        /\ defs = <<>> /\ api = Nothing /\ cur = Nothing
  /\ (last.op = "construct" /\ ~BadName(last.kind, last.name)) =>
        /\ pc = "defined"
        /\ defs[1].kind = last.kind /\ defs[1].name = last.name
  /\ pc \in {"defined", "compiled"} =>
        \A i \in 1..Len(defs) :
           defs[i].kind \in NodeKinds => ~BadName(defs[i].kind, defs[i].name)
  /\ api # Nothing => pc = "compiled"

C20_Witness ==
  /\ pc = "rejected" /\ last.op = "construct"
  /\ last.kind = "slot" /\ last.name = <<"0", "a">>
  /\ defs = <<>> /\ api = Nothing

\* a non-empty name made of '-' and '_' alone
OnlyDelimiters(name) == name # <<>> /\ \A i \in 1..Len(name) : name[i] \in {"-", "_"}

\* C21: path, slot, wrap and pick throw for a name that consists solely of
\* '-' and '_', so no definition node has the empty string, or the bare
\* marker '$', as its key (the empty name of the synthetic path node apart).
C21_DelimiterNamesRejected ==
  /\ (last.op = "construct" /\ OnlyDelimiters(last.name)) => pc = "rejected"
  /\ pc \in {"defined", "compiled"} =>
        \A i \in 1..Len(defs) :
           (defs[i].kind \in NodeKinds /\ defs[i].name # <<>>) =>
              defs[i].uuid \notin {<<>>, <<"$">>}

\* the reference normalization: the leading and the trailing run of '-' and
\* '_' removed, then every '-' or '_' in front of a letter or digit replaced
\* by that character in upper case
Delimiters == {"-", "_"}

RECURSIVE RefStripLead(_)
RefStripLead(s) ==
  IF s # <<>> /\ Head(s) \in Delimiters THEN RefStripLead(Tail(s)) ELSE s

RECURSIVE RefStripTrail(_)
RefStripTrail(s) ==
  IF s # <<>> /\ s[Len(s)] \in Delimiters THEN RefStripTrail(SubSeq(s, 1, Len(s) - 1)) ELSE s

RECURSIVE RefCap(_)
RefCap(s) ==
  IF s = <<>> THEN <<>>
  ELSE IF Head(s) \in Delimiters /\ Len(s) >= 2 /\ IsAlnum(s[2])
    THEN <<toUpperCase(s[2])>> \o RefCap(SubSeq(s, 3, Len(s)))
    ELSE <<Head(s)>> \o RefCap(Tail(s))

RefKey(name) == RefCap(RefStripTrail(RefStripLead(name)))

\* C22: the key of every node constructed from a valid name (one that is
\* not made of delimiters alone) is the reference normalization of the name (behind the marker for slot, wrap
\* and pick), and the key is a property name only: the route compiled for a
\* path node carries the raw name as its segment.
C22_KeyIsNormalizedName ==
  /\ pc \in {"defined", "compiled"} =>
        \A i \in 1..Len(defs) :
           (defs[i].kind \in NodeKinds /\ ~OnlyDelimiters(defs[i].name)) =>
              defs[i].uuid = (IF defs[i].kind = "path" THEN <<>> ELSE <<"$">>)
                               \o RefKey(defs[i].name)
  /\ (pc = "compiled" /\ Len(defs) = 1 /\ defs[1].kind = "path" /\ defs[1].name # <<>>) =>
        /\ defs[1].uuid \in DOMAIN api.props
        /\ api.props[defs[1].uuid].path = <<defs[1].name>>

\* --------------------------------------------------- keys of siblings
\* the closure kind compiled for a node kind
ClosureOf(k) ==
  CASE k = "slot" -> "bind"
    [] k = "wrap" -> "wrap"
    [] k = "pick" -> "pick"

C24_NoPartialSuccess ==
  pc = "compiled" => err \notin {"Duplicate uuid", "Merge collision"}

\* r carries both modifiers
HasModifiers(r) ==
  /\ Modifiers \subseteq DOMAIN r.props
  /\ IsClosure(r.props[k_when]) /\ r.props[k_when].cl = "when"
  /\ IsClosure(r.props[k_join]) /\ r.props[k_join].cl = "join"

\* C25: every compiled route exposes $when and $join: the object root
\* returned, every path sub-route beneath it, and every route a binder, a
\* gate, a selector or a modifier returned, with the sub-routes beneath it.
C25_ModifiersEverywhere ==
  pc = "compiled" =>
     /\ \A r \in Reach(api) \cup Reach(cur) : HasModifiers(r)
     /\ (peer # Nothing /\ IsRoute(peer.res)) => \A r \in Reach(peer.res) : HasModifiers(r)

C25_Witness ==
  /\ Returned /\ last.op = "join" /\ kind = "wrap"
  /\ ~cur.fn
  /\ \E k \in DOMAIN cur.props : IsRoute(cur.props[k]) /\ HasModifiers(cur.props[k])
  /\ HasModifiers(cur)

\* --------------------------------------------------- pick
\* the segments a mode value stands for: a lone segment is one segment
SegmentsOf(m) == IF m.t = "str" THEN <<m.v>> ELSE m.v

\* C26: a mode map may give a single segment instead of a sequence for a
\* key: selecting that key inserts the segment as one path component, as
\* selecting a key mapped to a sequence inserts the segments of the
\* sequence.
C26_PickSingleSegment ==
  (Returned /\ last.op = "select" /\ last.arg \in DOMAIN last.child.mode) =>
    LET at == last.from \o last.hid \o SegmentsOf(last.child.mode[last.arg])
    IN /\ Conforms(cur, at, last.child.list)
       /\ \A r \in Reach(cur) : r.fn => SubSeq(r.path, 1, Len(at)) = at

\* --------------------------------------------------- descent order
\* what the last step contributes to the prefix
StepSegments ==
  CASE last.op = "get" -> last.hid \o <<last.child.name>>
    [] last.op = "bind" -> last.hid \o <<last.arg>>
    [] last.op = "gate" ->
         last.hid \o (IF last.arg \in last.child.when THEN <<last.child.name>> ELSE <<>>)
    [] last.op = "select" -> last.hid \o SegmentsOf(last.child.mode[last.arg])
    [] last.op = "join" -> AsArray(last.arg)
    [] last.op = "when" -> IF last.cond THEN AsArray(last.arg) ELSE <<>>
    [] OTHER -> <<>>

\* C27: segments appear in descent order. Every step of a chain appends its
\* own contribution (path: the raw name; slot: the parameter; wrap: the
\* name iff enabled; pick: mode[key]; $when(true, s) / $join(s): s;
\* $when(false, s): nothing) behind the prefix of the route it was taken
\* on, and the URL a callable returns is '/' followed by the segments of its
\* prefix, stringified and joined by '/', none dropped but the empty string
\* and none twice.
C27_DescentOrder ==
  /\ (Returned /\ last.op \in {"get", "bind", "gate", "select", "join", "when"}) =>
        /\ HereOf(cur) = HereOf(prev) \o StepSegments
        /\ cur.fn => cur.path = HereOf(cur)
  /\ (pc = "compiled" /\ last.op = "call") =>
        PathPart(out) = <<"/">> \o JoinSlash(SelectSeq(cur.path, LAMBDA x : x # <<>>))

\* --------------------------------------------------- definitions
\* every definition node of list l, nested ones included
RECURSIVE NodesOf(_)
NodesOf(l) ==
  UNION {{l[i]} \cup (IF l[i].kind = "keep" THEN {} ELSE NodesOf(l[i].list)) : i \in 1..Len(l)}

\* the child definitions captured by the closures reachable from r
CapturedBy(r) ==
  UNION {{x.props[k].child : k \in {j \in DOMAIN x.props :
                                        IsClosure(x.props[j])
                                        /\ x.props[j].cl \in {"bind", "wrap", "pick"}}}
         : x \in Reach(r)}

C29_NoFalseCollision ==
  (pc \in {"compiled", "failed"} /\ Compiling /\ err \in Collisions) =>
     EagerVisibleDup(last.tried)

\* the route a gate returns sits at the path its parent was compiled at,
\* followed by the wrap's name exactly when the predicate holds of the
\* argument; its $when starts from there and so does its URL if it is callable
GateChoice(recv, key, arg, res) ==
  LET c == recv.props[key]
      at == c.allPath \o (IF arg \in c.child.when THEN <<c.child.name>> ELSE <<>>)
  IN /\ res.props[k_when].basePath = at
     /\ res.fn => res.path = at

\* C30: a wrap predicate is called only by an invocation of its gate, once
\* per invocation and with the argument of that invocation. root(defs),
\* property reads, binders, selectors, $when / $join and calls of callables
\* call no predicate, and the route a gate returned keeps the choice made at
\* the gate call.
C30_PredicateOnlyAtGate ==
  /\ evals = IF last.op = "gate"
               THEN <<WhenCall(last.child, IF peer = Nothing THEN last.arg ELSE peer.arg)>>
               ELSE <<>>
  /\ (last.op = "gate" /\ err = "none") =>
       /\ GateChoice(last.recv, last.key, last.arg, cur)
       /\ (peer # Nothing /\ ~IsThrow(peer.res)) =>
            GateChoice(last.recv, last.key, peer.arg, peer.res)

\* a gate was invoked twice on one receiver with different arguments, one
\* accepted and one refused by the predicate
C30_Witness ==
  /\ last.op = "gate" /\ err = "none" /\ peer # Nothing
  /\ Len(evals) = 1 /\ evals[1].arg = peer.arg
  /\ (last.arg \in last.child.when) # (peer.arg \in last.child.when)
  /\ cur.fn /\ cur.path # peer.res.path


============================================================================
